---- MODULE Spec2Model ----
(***************************************************************************)
(* Model of src/main.py: a Tk to-do list whose in-memory task list is      *)
(* loaded from and saved to todo_gui.json.  Strings are sequences of       *)
(* one-character strings; list indices are 0-based as in the source.       *)
(***************************************************************************)
EXTENDS Integers, Sequences, FiniteSets, TLC

\* ---- bounds of the model
MaxTasks == 3
MaxFileRecs == 1
MaxLoadRecs == 2
MaxFailures == 1

\* ---- strings
Whitespace == {" "}

RECURSIVE lstrip(_)
lstrip(s) == IF s # <<>> /\ Head(s) \in Whitespace THEN lstrip(Tail(s)) ELSE s

RECURSIVE rstrip(_)
rstrip(s) == IF s # <<>> /\ s[Len(s)] \in Whitespace
             THEN rstrip(SubSeq(s, 1, Len(s) - 1)) ELSE s

\* mutants of strip: only the leading whitespace goes; nothing goes
strip_left_only(s) == lstrip(s)

strip_nothing(s) == s

\* str.strip()
strip(s) == rstrip(lstrip(s))

\* ---- JSON values as json.loads returns them
JStr(s) == [t |-> "str", s |-> s, n |-> 0, b |-> FALSE]
JNum(n) == [t |-> "num", s |-> <<>>, n |-> n, b |-> FALSE]
JBool(b) == [t |-> "bool", s |-> <<>>, n |-> 0, b |-> b]
JNull == [t |-> "null", s |-> <<>>, n |-> 0, b |-> FALSE]

Digit(n) == CASE n = 0 -> "0" [] n = 1 -> "1" [] n = 2 -> "2" [] n = 3 -> "3"
              [] n = 4 -> "4" [] n = 5 -> "5" [] n = 6 -> "6" [] n = 7 -> "7"
              [] n = 8 -> "8" [] n = 9 -> "9"

\* str(v) of a parsed JSON scalar
py_str(v) == CASE v.t = "str" -> v.s
               [] v.t = "num" -> <<Digit(v.n)>>
               [] v.t = "bool" -> IF v.b THEN <<"T", "r", "u", "e">>
                                         ELSE <<"F", "a", "l", "s", "e">>
               [] v.t = "null" -> <<"N", "o", "n", "e">>

\* bool(v) of a parsed JSON scalar
py_bool(v) == CASE v.t = "str" -> v.s # <<>>
                [] v.t = "num" -> v.n # 0
                [] v.t = "bool" -> v.b
                [] v.t = "null" -> FALSE

\* one element of the top-level JSON list: a dict with optional "text" and
\* "done" keys and possibly other keys, or something that is not a dict
DictItem(hasText, text, hasDone, done, extra) ==
    [isDict |-> TRUE, hasText |-> hasText, text |-> text,
     hasDone |-> hasDone, done |-> done, extra |-> extra]
NonDictItem ==
    [isDict |-> FALSE, hasText |-> FALSE, text |-> JNull,
     hasDone |-> FALSE, done |-> JNull, extra |-> FALSE]

\* content of data_file
FileState(kind, items) == [kind |-> kind, items |-> items]
FileKinds == {"absent", "unreadable", "garbage", "nonlist", "list"}

Task(text, done) == [text |-> text, done |-> done]

\* mutant of get_done: a missing "done" key counts as done
get_done_default_true(item) == IF item.hasDone THEN item.done ELSE JBool(TRUE)

\* item.get("done", False)
get_done(item) == IF item.hasDone THEN item.done ELSE JBool(FALSE)

RECURSIVE load_items(_)
load_items(items) ==
    IF items = <<>> THEN <<>>
    ELSE LET item == Head(items)
         IN  IF item.isDict /\ item.hasText
             THEN <<Task(py_str(item.text), py_bool(get_done(item)))>>
                      \o load_items(Tail(items))
             ELSE load_items(Tail(items))

load_tasks(f) == IF f.kind = "list" THEN load_items(f.items) ELSE <<>>

\* mutant of dumps: the done flag is written as the text of str(done)
dumps_done_as_text(ts) ==
    [i \in 1..Len(ts) |->
        DictItem(TRUE, JStr(ts[i].text), TRUE,
                 JStr(IF ts[i].done THEN <<"T", "r", "u", "e">>
                                    ELSE <<"F", "a", "l", "s", "e">>), FALSE)]

\* json.dumps(tasks) as the JSON value it denotes
dumps(ts) ==
    [i \in 1..Len(ts) |->
        DictItem(TRUE, JStr(ts[i].text), TRUE, JBool(ts[i].done), FALSE)]

save_tasks(ts) == FileState("list", dumps(ts))

\* ---- rendering
\* the two status emoji are written "[x]" and "[ ]", one character each
format_line(t) == <<(IF t.done THEN "[x]" ELSE "[ ]"), " ", " ">> \o t.text

render(ts) == [i \in 1..Len(ts) |-> format_line(ts[i])]

done_count(ts) == Cardinality({i \in 1..Len(ts) : ts[i].done})

status_of(ts) == [done |-> done_count(ts), total |-> Len(ts)]

\* ---- inputs of the model
\* what self.task_var may hold when add_task runs
Inputs == {<<>>, <<" ">>, <<" ", "a", " ">>}

\* elements the todo_gui.json found at the first start may hold
Records ==
    { NonDictItem,
      DictItem(FALSE, JNull, TRUE, JBool(TRUE), TRUE),
      DictItem(TRUE, JStr(<<"a">>), FALSE, JNull, FALSE),
      DictItem(TRUE, JStr(<<" ">>), TRUE, JBool(TRUE), TRUE) }

\* a wider choice of elements, for the behaviours that only load and save
LoadRecords ==
    Records \cup
    { DictItem(TRUE, JStr(<<>>), TRUE, JBool(FALSE), FALSE),
      DictItem(TRUE, JStr(<<"a", " ">>), TRUE, JStr(<<"a">>), FALSE),
      DictItem(TRUE, JStr(<<"b">>), TRUE, JStr(<<>>), TRUE),
      DictItem(TRUE, JNum(0), TRUE, JNum(1), FALSE),
      DictItem(TRUE, JNum(7), TRUE, JNum(0), FALSE),
      DictItem(TRUE, JBool(TRUE), TRUE, JNull, FALSE),
      DictItem(TRUE, JBool(FALSE), FALSE, JNull, TRUE),
      DictItem(TRUE, JNull, TRUE, JBool(TRUE), FALSE) }

SeqsUpTo(S, n) == UNION {[1..k -> S] : k \in 0..n}

FilesOf(R, n) ==
    {FileState(k, <<>>) : k \in FileKinds \ {"list"}}
        \cup {FileState("list", items) : items \in SeqsUpTo(R, n)}

FileContents == FilesOf(Records, MaxFileRecs)

LoadContents == FilesOf(LoadRecords, MaxLoadRecs)

\* how data_file.write_text can end: written; refused before the file is
\* opened; failed after the file was opened for writing and truncated
WriteOutcomes == {"ok", "denied", "truncated"}

write_text(f, ts, w) ==
    CASE w = "ok" -> save_tasks(ts)
      [] w = "denied" -> f
      [] w = "truncated" -> FileState("garbage", <<>>)

None == -1

VARIABLES
    running,    \* the window exists and mainloop dispatches gestures
    file,       \* content of data_file
    tasks,      \* self.tasks
    listbox,    \* lines of self.listbox
    sel,        \* self.listbox.curselection(): None or a 0-based index
    status,     \* the counts shown by self.status
    failures,   \* number of failed writes so far
    last,       \* what the most recent handler did
    before      \* self.tasks when the most recent handler started

vars == <<running, file, tasks, listbox, sel, status, failures, last, before>>

\* op: the handler; raw: the entry text it read; idx: the selected index it
\* read; signal: the message box it showed or the exception that ended it;
\* saved: save_tasks was called; wrote: the write succeeded; removed: the
\* count clear_completed reported; asked, prompt: the askyesno question
Event(op, raw, idx, signal, saved, wrote, removed, asked, prompt) ==
    [op |-> op, raw |-> raw, idx |-> idx, signal |-> signal, saved |-> saved,
     wrote |-> wrote, removed |-> removed, asked |-> asked, prompt |-> prompt]

CanWrite(w) == w = "ok" \/ failures < MaxFailures

\* TodoGUI.save reached with task list ts; the write ends as w
save(ts, w) ==
    /\ CanWrite(w)
    /\ file' = write_text(file, ts, w)
    /\ failures' = IF w = "ok" THEN failures ELSE failures + 1

\* TodoGUI._refresh_list: the lines and the counts are rebuilt from ts and
\* the selection is lost with the deleted lines
refresh_list(ts) ==
    /\ listbox' = render(ts)
    /\ status' = status_of(ts)

\* mutant of save_and_refresh: the save is skipped when the list did not
\* change
save_and_refresh_if_changed(ts, w) ==
    /\ CanWrite(w)
    /\ IF ts = tasks THEN UNCHANGED <<file, failures>> ELSE save(ts, w)
    /\ IF w = "ok" THEN refresh_list(ts) ELSE UNCHANGED <<listbox, status>>

\* the tail shared by the mutating handlers: self.save() and, unless the
\* write raised, self._refresh_list()
save_and_refresh(ts, w) ==
    /\ save(ts, w)
    /\ IF w = "ok" THEN refresh_list(ts) ELSE UNCHANGED <<listbox, status>>

\* self._selected_index()
selected_index == sel

\* tasks[idx] of a Python list for idx >= 0
InRange(ts, idx) == idx >= 0 /\ idx < Len(ts)

\* mutant of toggled: the task is marked done whatever it was
mark_done(ts, idx) == [ts EXCEPT ![idx + 1].done = TRUE]

\* the list with the done flag of position idx flipped
toggled(ts, idx) == [ts EXCEPT ![idx + 1].done = ~ts[idx + 1].done]

\* mutant of pop: list.pop() without the index removes the last task
pop_last(ts, idx) == SubSeq(ts, 1, Len(ts) - 1)

\* list.pop(idx)
pop(ts, idx) == SubSeq(ts, 1, idx) \o SubSeq(ts, idx + 2, Len(ts))

\* mutant of not_done: the filter keeps the tasks up to the first done one
not_done_prefix(ts) ==
    LET firstDone == {i \in 1..Len(ts) : ts[i].done /\ \A j \in 1..(i - 1) : ~ts[j].done}
    IN  IF firstDone = {} THEN ts
        ELSE SubSeq(ts, 1, (CHOOSE i \in firstDone : TRUE) - 1)

\* [t for t in ts if not t["done"]]
not_done(ts) == SelectSeq(ts, LAMBDA t : ~t.done)

\* mutant of prompt_text: the question names the first task of the list
prompt_text_first(ts, idx) == ts[1].text

\* the task text in the askyesno question of delete_task
prompt_text(ts, idx) == ts[idx + 1].text

\* mutant of selection_set: the selection is not restored after the refresh
selection_lost(idx) == None

\* the selection after self.listbox.selection_set(idx) on the rebuilt lines
selection_set(idx) == idx

Started(F) ==
    /\ file \in F
    /\ running = TRUE
    /\ tasks = load_tasks(file)
    /\ listbox = render(tasks)
    /\ status = status_of(tasks)
    /\ sel = None
    /\ failures = 0
    /\ last = Event("init", <<>>, None, "none", FALSE, FALSE, 0, FALSE, <<>>)
    /\ before = <<>>

Init == Started(FileContents)

InitLoad == Started(LoadContents)

\* the user clicks line i of the listbox (selectmode browse)
Select ==
    /\ running
    /\ \E i \in 0..(Len(listbox) - 1) : sel' = i
    /\ UNCHANGED <<running, file, tasks, listbox, status, failures, last, before>>

add_task ==
    /\ running
    /\ \E raw \in Inputs :
        LET text == strip(raw) IN
        IF text = <<>>
        THEN /\ last' = Event("add", raw, None, "Empty task", FALSE, FALSE, 0, FALSE, <<>>)
             /\ UNCHANGED <<running, file, tasks, listbox, sel, status, failures>>
        ELSE /\ Len(tasks) < MaxTasks
             /\ \E w \in WriteOutcomes :
                 /\ tasks' = Append(tasks, Task(text, FALSE))
                 /\ save_and_refresh(tasks', w)
                 /\ sel' = IF w = "ok" THEN None ELSE sel
                 /\ last' = Event("add", raw, None, IF w = "ok" THEN "none" ELSE "OSError",
                                  TRUE, w = "ok", 0, FALSE, <<>>)
             /\ UNCHANGED running
    /\ before' = tasks

toggle_done ==
    /\ running
    /\ LET idx == selected_index IN
       IF idx = None
       THEN /\ last' = Event("toggle", <<>>, idx, "No selection", FALSE, FALSE, 0, FALSE, <<>>)
            /\ UNCHANGED <<file, tasks, listbox, sel, status, failures>>
       ELSE IF ~InRange(tasks, idx)
       THEN /\ last' = Event("toggle", <<>>, idx, "IndexError", FALSE, FALSE, 0, FALSE, <<>>)
            /\ UNCHANGED <<file, tasks, listbox, sel, status, failures>>
       ELSE \E w \in WriteOutcomes :
            /\ tasks' = toggled(tasks, idx)
            /\ save_and_refresh(tasks', w)
            /\ sel' = IF w = "ok" THEN selection_set(idx) ELSE sel
            /\ last' = Event("toggle", <<>>, idx, IF w = "ok" THEN "none" ELSE "OSError",
                             TRUE, w = "ok", 0, FALSE, <<>>)
    /\ before' = tasks
    /\ UNCHANGED running

delete_task ==
    /\ running
    /\ LET idx == selected_index IN
       IF idx = None
       THEN /\ last' = Event("delete", <<>>, idx, "No selection", FALSE, FALSE, 0, FALSE, <<>>)
            /\ UNCHANGED <<file, tasks, listbox, sel, status, failures>>
       ELSE IF ~InRange(tasks, idx)
       THEN /\ last' = Event("delete", <<>>, idx, "IndexError", FALSE, FALSE, 0, FALSE, <<>>)
            /\ UNCHANGED <<file, tasks, listbox, sel, status, failures>>
       ELSE LET text == prompt_text(tasks, idx) IN
            \E yes \in BOOLEAN :
            IF ~yes
            THEN /\ last' = Event("delete", <<>>, idx, "declined", FALSE, FALSE, 0, TRUE, text)
                 /\ UNCHANGED <<file, tasks, listbox, sel, status, failures>>
            ELSE \E w \in WriteOutcomes :
                 /\ tasks' = pop(tasks, idx)
                 /\ save_and_refresh(tasks', w)
                 /\ sel' = IF w = "ok" THEN None ELSE sel
                 /\ last' = Event("delete", <<>>, idx, IF w = "ok" THEN "none" ELSE "OSError",
                                  TRUE, w = "ok", 0, TRUE, text)
    /\ before' = tasks
    /\ UNCHANGED running

clear_completed ==
    /\ running
    /\ \E w \in WriteOutcomes :
        LET removed == Len(tasks) - Len(not_done(tasks)) IN
        /\ tasks' = not_done(tasks)
        /\ save_and_refresh(tasks', w)
        /\ sel' = IF w = "ok" THEN None ELSE sel
        /\ last' = IF w = "ok"
                   THEN Event("clear", <<>>, None, "Cleared", TRUE, TRUE, removed, FALSE, <<>>)
                   ELSE Event("clear", <<>>, None, "OSError", TRUE, FALSE, 0, FALSE, <<>>)
    /\ before' = tasks
    /\ UNCHANGED running

\* the Save button
save_button ==
    /\ running
    /\ \E w \in WriteOutcomes :
        /\ save(tasks, w)
        /\ last' = Event("save", <<>>, None, IF w = "ok" THEN "none" ELSE "OSError",
                         TRUE, w = "ok", 0, FALSE, <<>>)
    /\ before' = tasks
    /\ UNCHANGED <<running, tasks, listbox, sel, status>>

\* the window is gone: the process ends and its memory with it
Destroyed ==
    /\ running' = FALSE
    /\ tasks' = <<>>
    /\ listbox' = <<>>
    /\ sel' = None
    /\ status' = status_of(<<>>)

on_quit ==
    /\ running
    /\ \E w \in WriteOutcomes :
        /\ save(tasks, w)
        /\ IF w = "ok"
           THEN Destroyed
           ELSE UNCHANGED <<running, tasks, listbox, sel, status>>
        /\ last' = Event("quit", <<>>, None, IF w = "ok" THEN "none" ELSE "OSError",
                         TRUE, w = "ok", 0, FALSE, <<>>)
    /\ before' = tasks

\* the window manager's close button: no WM_DELETE_WINDOW handler is
\* installed, so Tk destroys the window at once
close_window ==
    /\ running
    /\ Destroyed
    /\ last' = Event("close", <<>>, None, "none", FALSE, FALSE, 0, FALSE, <<>>)
    /\ before' = tasks
    /\ UNCHANGED <<file, failures>>

\* the program is started again: TodoGUI.__init__
init_gui ==
    /\ ~running
    /\ running' = TRUE
    /\ tasks' = load_tasks(file)
    /\ refresh_list(tasks')
    /\ sel' = None
    /\ last' = Event("init", <<>>, None, "none", FALSE, FALSE, 0, FALSE, <<>>)
    /\ UNCHANGED <<file, failures, before>>

Next ==
    \/ Select
    \/ add_task
    \/ toggle_done
    \/ delete_task
    \/ clear_completed
    \/ save_button
    \/ on_quit
    \/ close_window
    \/ init_gui

Spec == Init /\ [][Next]_vars

\* the behaviours that only load and save, over the wider file contents
NextLoad ==
    \/ init_gui
    \/ save_button
    \/ on_quit
    \/ close_window

SpecLoad == InitLoad /\ [][NextLoad]_vars

TypeOK ==
    /\ running \in BOOLEAN
    /\ file.kind \in FileKinds
    /\ Len(tasks) <= MaxTasks + MaxLoadRecs
    /\ sel \in None..(Len(listbox) - 1)
    /\ failures \in 0..MaxFailures

\* ---- vocabulary of the properties
Mutators == {"add", "toggle", "delete", "clear"}

\* the ways a handler ends without having touched the list
Rejections == {"Empty task", "No selection", "declined", "IndexError"}

\* the handler went past its checks and changed self.tasks
Performed == last.signal \notin Rejections

HasText(raw) == \E i \in 1..Len(raw) : raw[i] \notin Whitespace

AllWhitespace(s) == \A i \in 1..Len(s) : s[i] \in Whitespace

\* s is raw without its leading and trailing whitespace
IsTrimOf(s, raw) ==
    /\ s # <<>> => Head(s) \notin Whitespace /\ s[Len(s)] \notin Whitespace
    /\ \E i \in 0..Len(raw) : \E j \in i..Len(raw) :
          /\ s = SubSeq(raw, i + 1, j)
          /\ AllWhitespace(SubSeq(raw, 1, i))
          /\ AllWhitespace(SubSeq(raw, j + 1, Len(raw)))

\* out is, in order, conv[i] for exactly the positions i of K
IsSelection(out, conv, K) ==
    /\ Len(out) = Cardinality(K)
    /\ \E f \in [1..Len(out) -> K] :
          /\ \A a, b \in 1..Len(out) : a < b => f[a] < f[b]
          /\ \A a \in 1..Len(out) : out[a] = conv[f[a]]

\* C1: a mutating handler that is not rejected has called save with the
\* list it leaves behind, and when that write succeeded the file holds
\* exactly that list; clear_completed does so even when it removed nothing.
C1_SaveAfterMutation ==
    (last.op \in Mutators /\ Performed) =>
        /\ last.saved
        /\ last.wrote => file = FileState("list", dumps(tasks))

C1_Witness ==
    /\ last.op = "clear"
    /\ last.signal = "Cleared"
    /\ last.removed = 0
    /\ tasks = before
    /\ tasks # <<>>
    /\ file = FileState("list", dumps(tasks))

\* the list a successful save has just written
SavedList == IF last.op = "quit" THEN before ELSE tasks

\* C2: after a save that succeeded, loading the file afresh gives the list
\* that was saved: same length, order, texts and done flags.
C2_RoundTrip ==
    (last.saved /\ last.wrote) =>
        /\ Len(load_tasks(file)) = Len(SavedList)
        /\ \A i \in 1..Len(SavedList) :
              /\ load_tasks(file)[i].text = SavedList[i].text
              /\ load_tasks(file)[i].done = SavedList[i].done

C2_Witness ==
    /\ last.op = "quit"
    /\ last.wrote
    /\ ~running
    /\ Len(before) = 2
    /\ before[1].done # before[2].done
    /\ load_tasks(file) = before

\* C3: add with an input that has a non-whitespace character appends one
\* task, the trimmed input with done false, after the unchanged earlier
\* tasks.
C3_AddAppends ==
    (last.op = "add" /\ HasText(last.raw)) =>
        /\ Len(tasks) = Len(before) + 1
        /\ IsTrimOf(tasks[Len(tasks)].text, last.raw)
        /\ tasks[Len(tasks)].done = FALSE
        /\ \A i \in 1..Len(before) : tasks[i] = before[i]

C3_Witness ==
    /\ last.op = "add"
    /\ HasText(last.raw)
    /\ last.raw # tasks[Len(tasks)].text
    /\ Len(before) = 2
    /\ before[1] # before[2]

\* C4: add with an empty or whitespace-only input shows the "Empty task"
\* notice, leaves the list as it was and neither calls save nor changes
\* the file.
C4_EmptyAddRejected ==
    [][(last'.op = "add" /\ ~HasText(last'.raw) /\ add_task) =>
          /\ last'.signal = "Empty task"
          /\ tasks' = tasks
          /\ ~last'.saved
          /\ file' = file]_vars

C4_Witness ==
    /\ last.op = "add"
    /\ last.raw = <<" ">>
    /\ last.signal = "Empty task"
    /\ tasks = before
    /\ tasks # <<>>
    /\ file # FileState("list", dumps(tasks))

\* C5: toggle and delete with no selection, or with a selected index that
\* is outside the current list, show "No selection", change nothing and
\* do not save.
C5_InvalidIndexRejected ==
    (last.op \in {"toggle", "delete"}
        /\ (last.idx = None \/ ~InRange(before, last.idx))) =>
        /\ last.signal = "No selection"
        /\ tasks = before
        /\ ~last.saved

\* C6: toggle on a valid index flips the done flag of that task and changes
\* nothing else of the list, and a second toggle on the same index right
\* after a first one gives back the list as it was before the first.
C6_ToggleFlips ==
    [][(last'.op = "toggle" /\ InRange(tasks, sel) /\ toggle_done) =>
          /\ Len(tasks') = Len(tasks)
          /\ \A j \in 1..Len(tasks) :
                IF j = sel + 1
                THEN /\ tasks'[j].text = tasks[j].text
                     /\ tasks'[j].done = ~tasks[j].done
                ELSE tasks'[j] = tasks[j]
          /\ (last.op = "toggle" /\ Performed /\ last.idx = sel) => tasks' = before]_vars

C6_Witness ==
    /\ last.op = "toggle"
    /\ last.signal = "none"
    /\ Len(tasks) = 3
    /\ last.idx = 1
    /\ tasks[2].done # before[2].done
    /\ sel = last.idx

\* C7: a confirmed delete on a valid index shortens the list by one: the
\* tasks before the index stay, the tasks after it move one place left.
C7_DeleteRemovesOne ==
    (last.op = "delete" /\ Performed) =>
        /\ Len(tasks) = Len(before) - 1
        /\ \A j \in 1..Len(tasks) :
              tasks[j] = IF j <= last.idx THEN before[j] ELSE before[j + 1]

C7_Witness ==
    /\ last.op = "delete"
    /\ last.signal = "none"
    /\ Len(before) = 3
    /\ last.idx = 1
    /\ before[1] # before[2]
    /\ before[2] # before[3]

\* C8: clear_completed keeps exactly the tasks that were not done, in their
\* order and unchanged, and the count it reports is the number of tasks
\* that were done.
C8_ClearKeepsNotDone ==
    (last.op = "clear") =>
        /\ IsSelection(tasks, before, {i \in 1..Len(before) : ~before[i].done})
        /\ last.wrote =>
              /\ last.signal = "Cleared"
              /\ last.removed = Cardinality({i \in 1..Len(before) : before[i].done})

C8_Witness ==
    /\ last.op = "clear"
    /\ last.signal = "Cleared"
    /\ last.removed = 1
    /\ Len(before) = 3
    /\ before[2].done
    /\ before[1] # before[3]
    /\ tasks = <<before[1], before[3]>>

\* C9: every task of the in-memory list has a text that is not empty after
\* trimming.
C9_TextsNonEmpty ==
    \A i \in 1..Len(tasks) : HasText(tasks[i].text)

\* the tasks load is to return for file content f
Loadable(f) == {i \in 1..Len(f.items) : f.items[i].isDict /\ f.items[i].hasText}

Converted(f) ==
    [i \in 1..Len(f.items) |->
        Task(py_str(f.items[i].text),
             IF f.items[i].hasDone THEN py_bool(f.items[i].done) ELSE FALSE)]

\* C10: what the constructor loaded is, in file order, one task for each
\* element that is a dict with a "text" key, its done flag taken from the
\* "done" key or false without one; it is empty when the file is absent,
\* unreadable, unparsable or not a list.
C10_LoadResult ==
    (last.op = "init") =>
        IF file.kind = "list"
        THEN IsSelection(tasks, Converted(file), Loadable(file))
        ELSE tasks = <<>>

C10_Witness ==
    /\ last.op = "init"
    /\ file.kind = "list"
    /\ Len(file.items) = 2
    /\ ~file.items[1].hasText
    /\ file.items[2].extra
    /\ ~file.items[2].hasDone
    /\ Len(tasks) = 1
    /\ ~tasks[1].done

\* C11: when the write of save fails in add, toggle, delete or clear, the
\* handler ends with the error, the change it made to the list stays, and
\* the file still holds what it held before.
C11_FailedSaveKeepsFile ==
    [][(last'.op \in Mutators /\ failures' = failures + 1) =>
          /\ last'.signal = "OSError"
          /\ last'.op \in {"add", "toggle", "delete"} => tasks' # tasks
          /\ file' = file]_vars

\* C12: whenever the window has been released, the handler that released
\* it saved the list first.
C12_FinalSaveOnShutdown ==
    ~running => last.saved

\* C13: delete removes a task only after the question naming the text of
\* that very task was answered yes; answered no, the list and the file stay
\* as they were and save is not called.
C13_DeleteAfterConfirmation ==
    [][(last'.op = "delete" /\ delete_task) =>
          /\ tasks' # tasks =>
                /\ last'.asked
                /\ last'.signal # "declined"
                /\ InRange(tasks, sel)
                /\ last'.prompt = tasks[sel + 1].text
                /\ Len(tasks') = Len(tasks) - 1
                /\ \A j \in 1..Len(tasks') :
                      tasks'[j] = IF j <= sel THEN tasks[j] ELSE tasks[j + 1]
          /\ last'.signal = "declined" =>
                /\ last'.asked
                /\ tasks' = tasks
                /\ ~last'.saved
                /\ file' = file]_vars

C13_Witness ==
    /\ last.op = "delete"
    /\ last.signal = "none"
    /\ last.asked
    /\ last.idx = 1
    /\ Len(before) = 2
    /\ before[1].text # before[2].text
    /\ last.prompt = before[2].text
    /\ tasks = <<before[1]>>

\* C14: after an add, toggle, delete or clear that was not rejected, with
\* the save succeeding or failing, the listbox has one line per task, in
\* order, showing its flag and text, and the summary shows the counts.
C14_DisplayMatchesList ==
    (last.op \in Mutators /\ Performed) =>
        /\ Len(listbox) = Len(tasks)
        /\ \A i \in 1..Len(tasks) : listbox[i] = format_line(tasks[i])
        /\ status.total = Len(tasks)
        /\ status.done = Cardinality({i \in 1..Len(tasks) : tasks[i].done})

\* C15: a selected index is always an index of the in-memory list, and the
\* line shown at it is the line of the task at it.
C15_SelectionValid ==
    (running /\ sel # None) =>
        /\ InRange(tasks, sel)
        /\ listbox[sel + 1] = format_line(tasks[sel + 1])

\* the most recent handler changed the list, saved it and refreshed
Succeeded(ev, ops) == ev.op \in ops /\ ev.signal \in {"none", "Cleared"}

\* C16: a toggle that succeeded leaves its index selected, so that a toggle
\* or delete right after it works on that same index; an add, delete or
\* clear that succeeded leaves nothing selected, so that a toggle or delete
\* right after it, with no line selected in between, answers "No
\* selection" and changes neither the list nor the file.
C16_SelectionAfterSuccess ==
    [][/\ (Succeeded(last', {"toggle"}) /\ toggle_done) =>
            /\ sel' = sel
            /\ InRange(tasks', sel')
       /\ (Succeeded(last', {"add", "delete", "clear"})
              /\ (add_task \/ delete_task \/ clear_completed)) =>
            sel' = None
       /\ (Succeeded(last, {"toggle"}) /\ sel = last.idx
              /\ last'.op \in {"toggle", "delete"}
              /\ (toggle_done \/ delete_task)) =>
            /\ last'.idx = last.idx
            /\ last'.signal \notin {"No selection", "IndexError"}
       /\ (Succeeded(last, {"add", "delete", "clear"}) /\ sel = None
              /\ last'.op \in {"toggle", "delete"}
              /\ (toggle_done \/ delete_task)) =>
            /\ last'.signal = "No selection"
            /\ tasks' = tasks
            /\ file' = file]_vars

C16_Witness ==
    /\ last.op = "toggle"
    /\ last.signal = "none"
    /\ sel = last.idx
    /\ sel = 0
    /\ Len(tasks) = 2
    /\ tasks[1].done
    /\ ~before[1].done
    /\ listbox = render(tasks)

====
